---- MODULE Spec2Model ----
(***************************************************************************)
(* HTMLWidget (src/src/she_codes_weather/utils/html_widget.py): template   *)
(* loading, comment stripping, CSS injection, syntax check, variable       *)
(* validation, render() and save().                                        *)
(*                                                                         *)
(* Text is a sequence of lexemes (strings).  "<", ">", "&", "/" are        *)
(* lexemes of their own, so that HTML escaping is modelled by what it      *)
(* does to them.  A template placeholder {{ v }} is the lexeme Ph(v), the  *)
(* attribute access {{ v.f }} is PhAttr(v), an unterminated "{{ v }" is    *)
(* PhBad(v).  A template file is given by the tree html.parser builds for  *)
(* it: tag nodes, text nodes and comment nodes.                            *)
(***************************************************************************)
EXTENDS Integers, Sequences, FiniteSets, TLC

VARIABLES fs,        \* the file system: absolute path -> entry
          program,   \* the widget classes this program defines
          widgets,   \* per instance slot: the result of the last constructor call
          lastSave,  \* what the last save() call did
          clock,     \* the calendar day it is (a day number)
          endpoint,  \* WeatherEndpoint: self.today of the instance, 0 when there is none
          week,      \* what the last current_week() or next_week() call returned
          meta,      \* ABCMeta: its _patched flag and the wrappers around __call__
          defined,   \* the classes defined so far, each with its base class
          call       \* the last constructor call and what ran in it, in order

vars == <<fs, program, widgets, lastSave, clock, endpoint, week, meta, defined, call>>

\* the state of the widgets, of the weather endpoint, of the constructor patch
widgetVars  == <<fs, program, widgets, lastSave>>
weatherVars == <<clock, endpoint, week>>
hookVars    == <<meta, defined, call>>

----------------------------------------------------------------------------
(* Bounds *)

\* longest rendered markup a constructor or an assignment is handed as a value
MaxValueLen == 30

----------------------------------------------------------------------------
(* Sequences of lexemes *)

RECURSIVE Flatten(_)
Flatten(ss) == IF ss = <<>> THEN <<>> ELSE Head(ss) \o Flatten(Tail(ss))

\* sub occurs in s as a contiguous run (Python's  sub in s)
Contains(s, sub) ==
    \E i \in 1..(Len(s) - Len(sub) + 1) : SubSeq(s, i, i + Len(sub) - 1) = sub

Count(s, x) == Cardinality({i \in 1..Len(s) : s[i] = x})

CommentOpen  == <<"<", "!--">>
CommentClose == <<"--", ">">>

----------------------------------------------------------------------------
(* Jinja2 lexemes *)

UserNames == {"title", "content"}
\* names the base class itself gives an instance (html_widget.py 21-22, 175-183, 211, 233)
BaseNames == {"env", "template_path", "css_path", "template_source", "variables",
              "render", "save"}
Names == UserNames \cup BaseNames \cup {"secret"}

Ph(v)     == "{{ " \o v \o " }}"
PhAttr(v) == "{{ " \o v \o ".f }}"
PhBad(v)  == "{{ " \o v \o " }"

PhLexemes     == {Ph(v) : v \in Names}
PhAttrLexemes == {PhAttr(v) : v \in Names}
PhBadLexemes  == {PhBad(v) : v \in Names}

IsPh(x)     == x \in PhLexemes
IsPhAttr(x) == x \in PhAttrLexemes
IsPhBad(x)  == x \in PhBadLexemes

\* the name a placeholder refers to
VarTable == [x \in PhLexemes \cup PhAttrLexemes |->
                CHOOSE v \in Names : x \in {Ph(v), PhAttr(v)}]
VarOf(x) == VarTable[x]

----------------------------------------------------------------------------
(* The parse tree (BeautifulSoup, html.parser) *)

Tag(name, kids) == [k |-> "tag", name |-> name, kids |-> kids, s |-> <<>>]
Text(s)         == [k |-> "text", name |-> "", kids |-> <<>>, s |-> s]
Comment(s)      == [k |-> "comment", name |-> "", kids |-> <<>>, s |-> s]

\* soup.new_tag('style'); style_tag.string = css_content
StyleTag(css) == Tag("style", <<Text(css)>>)

\* mutant: the comments are left in the tree
KeepAllNodes(nodes) == nodes

RECURSIVE StripComments(_)
\* for comment in soup.find_all(string=... Comment): comment.extract()
StripComments(nodes) ==
    IF nodes = <<>> THEN <<>>
    ELSE LET n == Head(nodes) IN
         IF n.k = "comment" THEN StripComments(Tail(nodes))
         ELSE IF n.k = "tag"
              THEN <<[n EXCEPT !.kids = StripComments(n.kids)]>> \o StripComments(Tail(nodes))
              ELSE <<n>> \o StripComments(Tail(nodes))

RECURSIVE HasTag(_, _)
\* soup.find(name) is not None: a tag of that name anywhere in the tree
HasTag(nodes, name) ==
    \E i \in 1..Len(nodes) :
        /\ nodes[i].k = "tag"
        /\ (nodes[i].name = name \/ HasTag(nodes[i].kids, name))

\* index of the first top-level node that is, or holds, a tag of that name
FirstWith(nodes, name) ==
    CHOOSE i \in 1..Len(nodes) :
        /\ HasTag(<<nodes[i]>>, name)
        /\ \A j \in 1..(i - 1) : ~HasTag(<<nodes[j]>>, name)

RECURSIVE AppendInFirst(_, _, _)
\* soup.find(name).append(new): new becomes the last child of the first such tag
\* in document order
AppendInFirst(nodes, name, new) ==
    LET i == FirstWith(nodes, name)
        n == nodes[i] IN
    [nodes EXCEPT ![i] =
        IF n.name = name THEN [n EXCEPT !.kids = Append(n.kids, new)]
        ELSE [n EXCEPT !.kids = AppendInFirst(n.kids, name, new)]]

RECURSIVE InsertInFirst(_, _, _)
\* soup.find(name).insert(0, new): new becomes the first child of the first such tag
InsertInFirst(nodes, name, new) ==
    LET i == FirstWith(nodes, name)
        n == nodes[i] IN
    [nodes EXCEPT ![i] =
        IF n.name = name THEN [n EXCEPT !.kids = <<new>> \o n.kids]
        ELSE [n EXCEPT !.kids = InsertInFirst(n.kids, name, new)]]

\* mutant: the style node is put first in an existing head, and last elsewhere
InjectCSSMisplaced(soup, css) ==
    IF HasTag(soup, "head")
    THEN InsertInFirst(soup, "head", StyleTag(css))
    ELSE IF HasTag(soup, "html")
         THEN AppendInFirst(soup, "html", Tag("head", <<StyleTag(css)>>))
         ELSE soup \o <<StyleTag(css)>>

\* html_widget.py 89-110
InjectCSS(soup, css) ==
    IF HasTag(soup, "head")
    THEN AppendInFirst(soup, "head", StyleTag(css))
    ELSE IF HasTag(soup, "html")
         THEN InsertInFirst(soup, "html", Tag("head", <<StyleTag(css)>>))
         ELSE <<StyleTag(css)>> \o soup

\* the "minimal" output formatter of BeautifulSoup: & < > become entities
EntitySub(x) ==
    CASE x = "&" -> <<"&", "amp;">>
      [] x = "<" -> <<"&", "lt;">>
      [] x = ">" -> <<"&", "gt;">>
      [] OTHER   -> <<x>>

Indent(d) == [i \in 1..d |-> " "]

\* strings inside style and script are written as they are
CDataTags == {"script", "style"}

RECURSIVE Prettify(_, _, _)
\* soup.prettify(): every tag and every string on a line of its own, indented by
\* its depth; parent is the name of the enclosing tag
Prettify(nodes, d, parent) ==
    IF nodes = <<>> THEN <<>>
    ELSE LET n == Head(nodes) IN
         (CASE n.k = "tag" ->
                  Indent(d) \o <<"<", n.name, ">", "\n">>
                  \o Prettify(n.kids, d + 1, n.name)
                  \o Indent(d) \o <<"<", "/", n.name, ">", "\n">>
            [] n.k = "text" ->
                  Indent(d)
                  \o (IF parent \in CDataTags THEN n.s
                      ELSE Flatten([i \in 1..Len(n.s) |-> EntitySub(n.s[i])]))
                  \o <<"\n">>
            [] OTHER ->
                  Indent(d) \o CommentOpen \o n.s \o CommentClose \o <<"\n">>)
         \o Prettify(Tail(nodes), d, parent)

----------------------------------------------------------------------------
(* Values, and what Jinja2 does with them *)

Plain(s)  == [chars |-> s, safe |-> FALSE]   \* a str
Markup(s) == [chars |-> s, safe |-> TRUE]    \* markupsafe.Markup

\* markupsafe.escape, applied by the autoescaping environment to a str
Escape(x) ==
    CASE x = "&"  -> <<"&", "amp;">>
      [] x = "<"  -> <<"&", "lt;">>
      [] x = ">"  -> <<"&", "gt;">>
      [] x = "'"  -> <<"&", "#39;">>
      [] x = "\"" -> <<"&", "#34;">>
      [] OTHER    -> <<x>>

EscapeAll(s) == Flatten([i \in 1..Len(s) |-> Escape(s[i])])

\* mutant: every value is escaped, Markup included
ShowEscaped(v) == EscapeAll(v.chars)

\* {{ v }} with autoescape=True (html_widget.py 175-178): a value with __html__ is
\* inserted as it is, any other value is escaped
Show(v) == IF v.safe THEN v.chars ELSE EscapeAll(v.chars)

\* the lexer drops one trailing newline of the source (keep_trailing_newline=False)
JinjaSource(src) ==
    IF src # <<>> /\ src[Len(src)] = "\n" THEN SubSeq(src, 1, Len(src) - 1) ELSE src

\* env.parse(source): position of the first lexeme that does not parse, 0 if none
SyntaxErrorAt(src) ==
    IF \E i \in 1..Len(src) : IsPhBad(src[i])
    THEN CHOOSE i \in 1..Len(src) :
             IsPhBad(src[i]) /\ \A j \in 1..(i - 1) : ~IsPhBad(src[j])
    ELSE 0

LineOf(src, i) == 1 + Count(SubSeq(src, 1, i - 1), "\n")

\* meta.find_undeclared_variables(env.parse(source))
UndeclaredVariables(src) ==
    {VarOf(src[i]) : i \in {j \in 1..Len(src) : IsPh(src[j]) \/ IsPhAttr(src[j])}}

\* what one lexeme of the template renders to; "undefined" is jinja2's
\* UndefinedError (an attribute is looked up on a name the context does not hold)
RenderLexeme(x, data) ==
    IF IsPh(x)
    THEN IF VarOf(x) \in DOMAIN data THEN Show(data[VarOf(x)]) ELSE <<>>
    ELSE IF IsPhAttr(x) THEN <<>>
         ELSE <<x>>

Raises(src, data) ==
    \E i \in 1..Len(src) : IsPhAttr(src[i]) /\ VarOf(src[i]) \notin DOMAIN data

\* template.render(**data)
TemplateRender(source, data) ==
    LET src == JinjaSource(source) IN
    IF Raises(src, data)
    THEN [ok |-> FALSE, chars |-> <<>>]
    ELSE [ok |-> TRUE,
          chars |-> Flatten([i \in 1..Len(src) |-> RenderLexeme(src[i], data)])]

----------------------------------------------------------------------------
(* Files and widget classes *)

None == <<>>

\* a directory and a file name; a relative path is the file name alone
Abs(dir, name) == <<dir, name>>
Rel(name)      == <<name>>

\* Path(os.path.abspath(<module file>)).parent.joinpath(p): an absolute p stays
Resolve(module, p) == IF Len(p) = 2 THEN p ELSE <<module, p[1]>>

HtmlFile(nodes) == [kind |-> "html", nodes |-> nodes, text |-> <<>>]
TextFile(text)  == [kind |-> "text", nodes |-> <<>>, text |-> text]
Directory       == [kind |-> "dir", nodes |-> <<>>, text |-> <<>>]

Cwd == "cwd"

InitialFiles ==
    (Abs("widgets", "heading.html") :>
        HtmlFile(<<Tag("h1", <<Text(<<Ph("title")>>)>>)>>))
 @@ (Abs("other", "heading.html") :>
        HtmlFile(<<Tag("h2", <<Text(<<Ph("title")>>)>>)>>))
 @@ (Abs("widgets", "page.html") :>
        HtmlFile(<<Tag("html", <<Tag("head", <<Tag("style", <<Text(<<"own">>)>>)>>),
                                 Tag("body", <<Text(<<Ph("content")>>)>>)>>)>>))
 @@ (Abs("widgets", "nohead.html") :>
        HtmlFile(<<Tag("html", <<Tag("body", <<Text(<<Ph("content")>>)>>)>>)>>))
 @@ (Abs("widgets", "commented.html") :>
        HtmlFile(<<Comment(<<Ph("secret"), PhBad("secret")>>),
                   Tag("h1", <<Comment(<<"c">>), Text(<<Ph("title")>>)>>)>>))
 @@ (Abs("widgets", "inline.html") :>
        HtmlFile(<<Comment(<<"c">>),
                   Tag("style", <<Text(CommentOpen \o <<"h1", "{", "}">> \o CommentClose)>>),
                   Tag("h1", <<Text(<<Ph("title")>>)>>)>>))
 @@ (Abs("widgets", "bad.html") :>
        HtmlFile(<<Tag("p", <<Text(<<Ph("content")>>)>>),
                   Tag("h1", <<Text(<<PhBad("title")>>)>>)>>))
 @@ (Abs("widgets", "two.html") :>
        HtmlFile(<<Tag("div", <<Text(<<Ph("title"), Ph("content")>>)>>)>>))
 @@ (Abs("widgets", "wrapper.html") :>
        HtmlFile(<<Tag("div", <<Text(<<Ph("content")>>)>>)>>))
 @@ (Abs("widgets", "internals.html") :>
        HtmlFile(<<Tag("p", <<Text(<<Ph("env")>>)>>)>>))
 @@ (Abs("widgets", "dotted.html") :>
        HtmlFile(<<Tag("p", <<Text(<<PhAttr("title")>>)>>)>>))
 @@ (Abs("widgets", "styles.css") :> TextFile(<<"h1", "{", "}">>))
 @@ (Abs("widgets", "legacy.css") :>
        TextFile(CommentOpen \o <<"h1", "{", "}">> \o CommentClose))
 @@ (Abs("widgets", "vars.css") :> TextFile(<<"h1", "{", Ph("secret"), "}">>))
 @@ (Abs("widgets", "titled.css") :> TextFile(<<"h1", "{", Ph("title"), "}">>))
 @@ (Abs("widgets", "assets") :> Directory)

NoAttrs == [n \in {} |-> Plain(<<>>)]

\* what __init__ is handed for an attribute: a str of the caller, or the Markup
\* that the render() of a child widget returned (as HomePageWidget.__init__ does)
Str   == {"str"}
Child == {"str", "markup"}
NoInit == [n \in {} |-> {}]

\* name: __name__; module: directory of the defining module; body: attributes
\* declared in the class body; props: properties; init: the attributes __init__
\* assigns, each with the kinds of value it is handed
Class(name, module, template_path, css_path, body, props, init) ==
    [name |-> name, module |-> module, template_path |-> template_path,
     css_path |-> css_path, body |-> body, props |-> props, init |-> init]

ClassDef ==
    [BadWidget |->
        Class("BadWidget", "widgets", None, None, NoAttrs, NoAttrs, NoInit),
     SimpleWidget |->
        Class("SimpleWidget", "widgets", Abs("widgets", "heading.html"), None,
              "title" :> Plain(<<"Test Title">>), NoAttrs, NoInit),
     PageHeadingWidget |->
        Class("PageHeadingWidget", "widgets", Rel("heading.html"), None,
              NoAttrs, NoAttrs, "title" :> Str),
     OtherHeadingWidget |->
        Class("PageHeadingWidget", "other", Rel("heading.html"), None,
              NoAttrs, NoAttrs, "title" :> Str),
     PropertyWidget |->
        Class("PropertyWidget", "widgets", Rel("heading.html"), None,
              NoAttrs, "title" :> Plain(<<"now">>), NoInit),
     StyledWidget |->
        Class("StyledWidget", "widgets", Rel("heading.html"), Rel("styles.css"),
              NoAttrs, NoAttrs, "title" :> Str),
     FullPageWidget |->
        Class("FullPageWidget", "widgets", Rel("page.html"), Rel("styles.css"),
              NoAttrs, NoAttrs, "content" :> Str),
     NoHeadWidget |->
        Class("NoHeadWidget", "widgets", Rel("nohead.html"), Rel("styles.css"),
              NoAttrs, NoAttrs, "content" :> Str),
     MissingCSSWidget |->
        Class("MissingCSSWidget", "widgets", Rel("heading.html"), Rel("nonexistent.css"),
              NoAttrs, NoAttrs, "title" :> Str),
     DirCSSWidget |->
        Class("DirCSSWidget", "widgets", Rel("heading.html"), Rel("assets"),
              NoAttrs, NoAttrs, "title" :> Str),
     MissingVarWidget |->
        Class("MissingVarWidget", "widgets", Rel("heading.html"), None,
              NoAttrs, NoAttrs, NoInit),
     TwoMissingWidget |->
        Class("TwoMissingWidget", "widgets", Rel("two.html"), None,
              NoAttrs, NoAttrs, NoInit),
     CommentWidget |->
        Class("CommentWidget", "widgets", Rel("commented.html"), None,
              NoAttrs, NoAttrs, "title" :> Str),
     LegacyStyleWidget |->
        Class("LegacyStyleWidget", "widgets", Rel("commented.html"), Rel("legacy.css"),
              NoAttrs, NoAttrs, "title" :> Str),
     InlineStyleWidget |->
        Class("InlineStyleWidget", "widgets", Rel("inline.html"), None,
              NoAttrs, NoAttrs, "title" :> Str),
     VarsCSSWidget |->
        Class("VarsCSSWidget", "widgets", Rel("heading.html"), Rel("vars.css"),
              NoAttrs, NoAttrs, "title" :> Str),
     TitledCSSWidget |->
        Class("TitledCSSWidget", "widgets", Rel("heading.html"), Rel("titled.css"),
              NoAttrs, NoAttrs, "title" :> Str),
     BadSyntaxWidget |->
        Class("BadSyntaxWidget", "widgets", Rel("bad.html"), None,
              NoAttrs, NoAttrs, NoInit),
     NoFileWidget |->
        Class("NoFileWidget", "widgets", Rel("nowhere.html"), None,
              NoAttrs, NoAttrs, "title" :> Str),
     InternalsWidget |->
        Class("InternalsWidget", "widgets", Rel("internals.html"), None,
              NoAttrs, NoAttrs, NoInit),
     WrapperWidget |->
        Class("WrapperWidget", "widgets", Rel("wrapper.html"), None,
              NoAttrs, NoAttrs, "content" :> Child),
     DottedWidget |->
        Class("DottedWidget", "widgets", Rel("dotted.html"), None,
              "title" :> Plain(<<"Test Title">>), NoAttrs, NoInit),
     DottedInitWidget |->
        Class("DottedInitWidget", "widgets", Rel("dotted.html"), None,
              NoAttrs, NoAttrs, "title" :> Str)]

ClassIds == DOMAIN ClassDef

\* the instances the program holds
Slots == {"a", "b"}

\* edits: the files that are rewritten or deleted while the program runs;
\* extras: the attributes outside any template that it assigns to its widgets;
\* dels: the attributes it deletes from them
FullProgram(classes, slots, edits, extras, dels) ==
    [classes |-> classes, slots |-> slots, edits |-> edits, extras |-> extras,
     dels |-> dels]

EditingProgram(classes, slots, edits) == FullProgram(classes, slots, edits, {}, {})

\* names of attributes a caller sets that no template uses
ExtraNames == {"note"}

AssigningProgram(classes, slots) ==
    FullProgram(classes, slots, {}, ExtraNames, ExtraNames \cup {"title"})

Program(classes, slots) == EditingProgram(classes, slots, {})

\* what a file that is rewritten holds afterwards
Rewritten ==
    (Abs("widgets", "heading.html") :>
        HtmlFile(<<Tag("h2", <<Text(<<Ph("title")>>)>>)>>))
 @@ (Abs("widgets", "styles.css") :> TextFile(<<"p", "{", "}">>))

\* the programs: the classes each defines and the instances it holds
Programs ==
    {Program({c}, {"a"}) :
        c \in {"SimpleWidget", "PropertyWidget", "StyledWidget", "FullPageWidget",
               "NoHeadWidget", "MissingCSSWidget", "DirCSSWidget", "CommentWidget",
               "LegacyStyleWidget", "InlineStyleWidget", "InternalsWidget", "DottedWidget",
               "DottedInitWidget"}}
    \cup {Program({"BadWidget", "NoFileWidget", "BadSyntaxWidget", "MissingVarWidget",
                   "TwoMissingWidget"}, {"a"}),
          Program({"PageHeadingWidget", "WrapperWidget"}, {"a"}),
          Program({"VarsCSSWidget", "TitledCSSWidget"}, {"a"}),
          Program({"PageHeadingWidget", "OtherHeadingWidget"}, {"a", "b"}),
          AssigningProgram({"PageHeadingWidget"}, {"a"}),
          AssigningProgram({"DottedInitWidget"}, {"a"}),
          AssigningProgram({"SimpleWidget"}, {"a"}),
          EditingProgram({"PageHeadingWidget"}, {"a", "b"},
                         {Abs("widgets", "heading.html")}),
          EditingProgram({"StyledWidget"}, {"a"},
                         {Abs("widgets", "heading.html"), Abs("widgets", "styles.css")})}

\* str arguments a caller passes
PlainValues == {<<"Hi">>, <<"2", "<", "3", "&", "4", ">", "1">>}

----------------------------------------------------------------------------
(* Construction: type.__call__ (so __init__), then _post_init *)

NoErr == [kind |-> "", exc |-> "", msg |-> {}, lineno |-> 0]

\* kind: the error kind of the specification; exc: the Python exception raised;
\* msg: the names the message holds; lineno: the template line it reports
Err(kind, exc, msg, lineno) == [kind |-> kind, exc |-> exc, msg |-> msg, lineno |-> lineno]

\* status, the class, the instance attributes __init__ or a later assignment set
\* (dict), the attributes _post_init sets (env, template_path, template_source,
\* variables), the error the constructor call raised, and three records of what
\* happened: the files the constructor call opened, the tree _get_template_source
\* serialized, and what the last render() call returned if the attributes have not
\* changed since (outs, empty or one result); read is what the files it opened
\* held, cssSeen what the call found at the CSS path ("" when it did not look)
NoReads == [q \in {} |-> Directory]

Blank ==
    [status |-> "Unconstructed", cls |-> "", dict |-> NoAttrs, env |-> FALSE,
     template_path |-> None, template_source |-> <<>>, variables |-> {},
     err |-> NoErr, opened |-> {}, soup |-> <<>>, outs |-> <<>>,
     read |-> NoReads, cssSeen |-> ""]

\* members every instance inherits from HTMLWidget
ClassMembers == {"template_path", "css_path", "render", "save"}

\* instance attributes _post_init has assigned when _get_variables runs
AssignedBeforeValidation == {"env", "template_path", "template_source"}

\* hasattr(self, v) as _get_variables evaluates it
HasAttr(c, dict, v) ==
    \/ v \in DOMAIN dict
    \/ v \in DOMAIN c.body
    \/ v \in DOMAIN c.props
    \/ v \in ClassMembers
    \/ v \in AssignedBeforeValidation

\* mutant: the message of src/app/_utils/html_widget.py 13-16, which names no class
ConfigErrorUnnamed(c) ==
    Err("ConfigurationError", "NotImplementedError", {"template_path"}, 0)

\* the error _get_template_path raises
ConfigError(c) ==
    Err("ConfigurationError", "NotImplementedError", {c.name, "template_path"}, 0)

\* _get_css_path
GetCssPath(c) == IF c.css_path = None THEN None ELSE Resolve(c.module, c.css_path)

\* css_file_path and css_file_path.exists(): a directory exists too
CssUsed(c, files) == GetCssPath(c) # None /\ GetCssPath(c) \in DOMAIN files

\* what is at the CSS path of the class
CssSeen(c, files) ==
    IF GetCssPath(c) = None THEN "unset"
    ELSE IF GetCssPath(c) \notin DOMAIN files THEN "absent"
    ELSE IF files[GetCssPath(c)].kind = "dir" THEN "dir"
    ELSE "file"

\* the exception open(p) raises, "" when p is a regular file
OpenError(files, p) ==
    IF p \notin DOMAIN files THEN "FileNotFoundError"
    ELSE IF files[p].kind = "dir" THEN "IsADirectoryError"
    ELSE ""

\* the outcomes of the constructor call of class cid whose __init__ left dict
PostInit(cid, dict, files) ==
    LET c    == ClassDef[cid]
        self == [Blank EXCEPT !.cls = cid, !.dict = dict, !.env = TRUE,
                              !.status = "Failed"]
    IN
    IF c.template_path = None
    THEN {[self EXCEPT !.err = ConfigError(c)]}
    ELSE
    LET tp    == Resolve(c.module, c.template_path)
        self1 == [self EXCEPT !.template_path = tp]
        cp    == GetCssPath(c)
    IN
    IF OpenError(files, tp) # ""
    THEN {[self1 EXCEPT !.err = Err("TemplateNotFound", OpenError(files, tp), {}, 0)]}
    ELSE IF CssUsed(c, files) /\ OpenError(files, cp) # ""
    THEN {[self1 EXCEPT !.opened = {tp}, !.read = [q \in {tp} |-> files[q]],
                        !.cssSeen = CssSeen(c, files),
                        !.err = Err("IOError", OpenError(files, cp), {}, 0)]}
    ELSE
    LET useCss == CssUsed(c, files)
        soup   == IF useCss
                  THEN InjectCSS(StripComments(files[tp].nodes), files[cp].text)
                  ELSE StripComments(files[tp].nodes)
        src    == Prettify(soup, 0, "")
        opened == IF useCss THEN {tp, cp} ELSE {tp}
        self2  == [self1 EXCEPT !.opened = opened,
                                !.read = [q \in opened |-> files[q]],
                                !.cssSeen = CssSeen(c, files),
                                !.soup = soup, !.template_source = src]
        bad    == SyntaxErrorAt(src)
    IN
    IF bad # 0
    THEN {[self2 EXCEPT !.err = Err("TemplateSyntaxError", "ValueError",
                                     {c.name}, LineOf(src, bad))]}
    ELSE
    LET variables == UndeclaredVariables(src)
        missing   == {v \in variables : ~HasAttr(c, dict, v)}
    IN
    IF missing # {}
    THEN \* the loop raises at the first name the set hands it that has no attribute
         {[self2 EXCEPT !.err = Err("MissingTemplateVariable", "NotImplementedError",
                                     {c.name, v}, 0)] : v \in missing}
    ELSE {[self2 EXCEPT !.status = "Ready", !.variables = variables]}

----------------------------------------------------------------------------
(* render() and save() *)

\* how str() shows the attributes _post_init assigned
BaseDict(w) ==
    ("env" :> Plain(<<"<", "jinja2.environment.Environment object", ">">>))
 @@ ("template_path" :> Plain(<<w.template_path[1], "/", w.template_path[2]>>))
 @@ ("template_source" :> Plain(w.template_source))
 @@ ("variables" :> Plain(<<"{", "}">>))

\* self.__dict__ of a Ready widget
InstanceDict(w) == BaseDict(w) @@ w.dict

\* mutant: render() passes no data to the template
RenderDataNone(w) == [k \in {} |-> Plain(<<>>)]

\* data = {key: val for key, val in self.__dict__.items() if key in self.variables}
RenderData(w) ==
    [k \in DOMAIN InstanceDict(w) \cap w.variables |-> InstanceDict(w)[k]]

\* mutant: render() reads and processes the template file again
RenderResultFromFile(w) ==
    IF w.template_path \in DOMAIN fs /\ fs[w.template_path].kind = "html"
    THEN TemplateRender(Prettify(StripComments(fs[w.template_path].nodes), 0, ""),
                        RenderData(w))
    ELSE [ok |-> FALSE, chars |-> <<>>]

\* render(): ok and the Markup text, or the error template.render raised
RenderResult(w) == TemplateRender(w.template_source, RenderData(w))

\* mutant: the file is named after the template file
OutputPathByTemplate(w) == Abs(Cwd, w.template_path[2] \o "_output.html")

\* f"./{self.__class__.__name__}_output.html"
OutputPath(w) == Abs(Cwd, ClassDef[w.cls].name \o "_output.html")

\* with open(path, 'w') as f: f.write(self.render()) -- io is what the operating
\* system does: "ok", or an OSError from open() or from write().  open(.., 'w')
\* creates or empties the file before render() is called.
SaveEffect(w, io) ==
    LET r == RenderResult(w) IN
    IF io = "open failed"
    THEN [fs |-> fs, renders |-> 0, result |-> "open failed"]
    ELSE [fs |-> (OutputPath(w) :> TextFile(IF io = "ok" /\ r.ok THEN r.chars ELSE <<>>))
                 @@ fs,
          renders |-> 1,
          result |-> IF ~r.ok THEN "render raised"
                     ELSE IF io = "ok" THEN "ok" ELSE "write failed"]

\* the last save() call: the __name__ of the widget's class, what render() returned
\* to a caller at that moment, how many render() calls save() made, how it ended
NoSave == [name |-> "", out |-> <<>>, renders |-> 0, result |-> ""]

----------------------------------------------------------------------------
(* WeatherEndpoint (src/src/she_codes_weather/utils/weather_endpoint.py) *)

\* range(7): the days of a week
DaysPerWeek == 7

\* how many days the clock is followed
MaxDays == 9

\* day numbers count calendar days; this one is a Monday
FirstDay == DaysPerWeek

\* datetime.isoweekday(): 1 for Monday .. 7 for Sunday
IsoWeekday(d) == (d % DaysPerWeek) + 1

NoWeek == [op |-> "", at |-> 0, days |-> <<>>]

\* the keys of the dictionary a call returns, in order: (week_start + x).date()
\* for x in range(7)
WeekFrom(week_start) == [x \in 1..DaysPerWeek |-> week_start + (x - 1)]

WeatherIdle ==
    /\ clock = FirstDay
    /\ endpoint = 0
    /\ week = NoWeek

\* a day passes
Tick ==
    /\ clock < FirstDay + DaysPerWeek + MaxDays
    /\ clock' = clock + 1
    /\ UNCHANGED <<endpoint, week, widgetVars, hookVars>>

\* WeatherEndpoint(): self.today = datetime.today().isoweekday()
NewEndpoint ==
    /\ endpoint' = IsoWeekday(clock)
    /\ UNCHANGED <<clock, week, widgetVars, hookVars>>

\* current_week(): week_start = datetime.today() - timedelta(days=self.today)
CurrentWeek ==
    /\ endpoint # 0
    /\ week' = [op |-> "current_week", at |-> clock, days |-> WeekFrom(clock - endpoint)]
    /\ UNCHANGED <<clock, endpoint, widgetVars, hookVars>>

\* next_week(): week_start = datetime.today() + timedelta(days=7-self.today)
NextWeek ==
    /\ endpoint # 0
    /\ week' = [op |-> "next_week", at |-> clock,
                days |-> WeekFrom(clock + (DaysPerWeek - endpoint))]
    /\ UNCHANGED <<clock, endpoint, widgetVars, hookVars>>

----------------------------------------------------------------------------
(* The constructor patch: HTMLWidget.__init_subclass__ and custom_call *)

\* widget classes a program defines, and two classes that are no widgets: one
\* with the metaclass ABCMeta, one with the metaclass type
WidgetClassNames == {"PageHeadingWidget", "HomePageWidget", "FrontPageWidget"}
OtherClassNames  == {"Forecast", "Day"}

NoClasses == [n \in {} |-> ""]

NoCall == [cls |-> "", ran |-> <<>>]

Unpatched == [patched |-> FALSE, wrappers |-> 0]

RECURSIVE IsWidgetClass(_, _)
\* isinstance(instance, HTMLWidget): the bases of cls lead to HTMLWidget
IsWidgetClass(cls, defs) ==
    /\ cls \in DOMAIN defs
    /\ (defs[cls] = "HTMLWidget" \/ IsWidgetClass(defs[cls], defs))

\* type(cls) is ABCMeta
UsesABCMeta(cls, defs) == IsWidgetClass(cls, defs) \/ defs[cls] = "ABC"

\* mutant: every subclass definition wraps __call__ again
InitSubclassUnguarded(m) == [patched |-> TRUE, wrappers |-> m.wrappers + 1]

\* __init_subclass__: if not hasattr(meta, "_patched"), wrap meta.__call__ and set
\* meta._patched
InitSubclass(m) ==
    IF ~m.patched THEN [patched |-> TRUE, wrappers |-> m.wrappers + 1] ELSE m

\* type.__call__: __new__, then __init__
OriginalCall == <<"__new__", "__init__">>

RECURSIVE CustomCall(_, _, _)
\* what runs, in order, when a class is called through n wrappers: each wrapper
\* calls the one below it, then runs _post_init on an HTMLWidget instance
CustomCall(n, cls, defs) ==
    IF n = 0 THEN OriginalCall
    ELSE CustomCall(n - 1, cls, defs)
         \o (IF IsWidgetClass(cls, defs) THEN <<"_post_init">> ELSE <<>>)

HookIdle ==
    /\ meta = Unpatched
    /\ defined = NoClasses
    /\ call = NoCall

\* class name(base): ... ; defining a subclass of a widget class runs
\* __init_subclass__
DefineClass(name, base) ==
    /\ name \notin DOMAIN defined
    /\ IF name \in WidgetClassNames
       THEN base \in {"HTMLWidget"} \cup (DOMAIN defined \cap WidgetClassNames)
       ELSE base = (IF name = "Forecast" THEN "ABC" ELSE "object")
    /\ defined' = (name :> base) @@ defined
    /\ meta' = IF name \in WidgetClassNames THEN InitSubclass(meta) ELSE meta
    /\ UNCHANGED <<call, widgetVars, weatherVars>>

\* cls(...)
Instantiate(cls) ==
    /\ cls \in DOMAIN defined
    /\ call' = [cls |-> cls,
                ran |-> IF UsesABCMeta(cls, defined)
                        THEN CustomCall(meta.wrappers, cls, defined)
                        ELSE OriginalCall]
    /\ UNCHANGED <<meta, defined, widgetVars, weatherVars>>

----------------------------------------------------------------------------
(* The program *)

LastOut(w) == w.outs[1]

\* the Markup render() returns now for the instances the program holds
ChildMarkup ==
    {Markup(RenderResult(widgets[s]).chars) :
        s \in {t \in program.slots : /\ widgets[t].status = "Ready"
                                     /\ RenderResult(widgets[t]).ok
                                     /\ Len(RenderResult(widgets[t]).chars) <= MaxValueLen}}

\* what a caller has at hand to pass as a value of these kinds
ArgValues(kinds) ==
    (IF "str" \in kinds THEN {Plain(p) : p \in PlainValues} ELSE {})
    \cup (IF "markup" \in kinds THEN ChildMarkup ELSE {})

\* the kinds of value the attribute of a class is given
KindsOf(cid, name) ==
    IF name \in DOMAIN ClassDef[cid].init THEN ClassDef[cid].init[name] ELSE Str

Init ==
    /\ fs = InitialFiles
    /\ program \in Programs
    /\ widgets = [s \in Slots |-> Blank]
    /\ lastSave = NoSave
    /\ WeatherIdle
    /\ HookIdle

\* no widget is constructed
WidgetsIdle ==
    /\ fs = InitialFiles
    /\ program = Program({}, {})
    /\ widgets = [s \in Slots |-> Blank]
    /\ lastSave = NoSave

\* slot = Cls(args): __init__ assigns its arguments, then _post_init runs; when it
\* raises, no instance is returned and the slot records the failed call
Construct(slot, cid, args) ==
    /\ \E w \in PostInit(cid, args, fs) : widgets' = [widgets EXCEPT ![slot] = w]
    /\ UNCHANGED <<fs, program, lastSave, weatherVars, hookVars>>

\* mutant: render() keeps what it rendered as an attribute of the widget
RenderCaching(slot) ==
    LET w == widgets[slot]
        r == RenderResult(w) IN
    /\ w.status = "Ready"
    /\ widgets' = [widgets EXCEPT ![slot].outs = <<r>>,
                                  ![slot].dict = ("title" :> Markup(r.chars)) @@ w.dict]
    /\ UNCHANGED <<fs, program, lastSave, weatherVars, hookVars>>

\* slot.render()
Render(slot) ==
    LET w == widgets[slot] IN
    /\ w.status = "Ready"
    /\ widgets' = [widgets EXCEPT ![slot].outs = <<RenderResult(w)>>]
    /\ UNCHANGED <<fs, program, lastSave, weatherVars, hookVars>>

\* slot.save()
Save(slot, io) ==
    LET w == widgets[slot]
        e == SaveEffect(w, io) IN
    /\ w.status = "Ready"
    /\ fs' = e.fs
    /\ widgets' = IF e.renders = 0 THEN widgets
                  ELSE [widgets EXCEPT ![slot].outs = <<RenderResult(w)>>]
    /\ lastSave' = [name |-> ClassDef[w.cls].name,
                    out |-> IF e.renders = 0 THEN <<>> ELSE RenderResult(w).chars,
                    renders |-> e.renders, result |-> e.result]
    /\ UNCHANGED <<program, weatherVars, hookVars>>

\* mutant: the value is kept on the class, so every instance of it sees it
SetAttrOnClass(slot, name, v) ==
    LET w == widgets[slot] IN
    /\ w.status = "Ready"
    /\ name \in w.variables
    /\ name \notin DOMAIN ClassDef[w.cls].props
    /\ v \in ArgValues(KindsOf(w.cls, name))
    /\ widgets' = [s \in Slots |->
                      IF widgets[s].status = "Ready" /\ widgets[s].cls = w.cls
                      THEN [widgets[s] EXCEPT !.dict = (name :> v) @@ widgets[s].dict,
                                              !.outs = <<>>]
                      ELSE widgets[s]]
    /\ UNCHANGED <<fs, program, lastSave, weatherVars, hookVars>>

\* slot.name = v on a Ready widget, for a name its template uses
SetAttr(slot, name, v) ==
    LET w == widgets[slot] IN
    /\ w.status = "Ready"
    /\ name \in w.variables
    /\ name \notin DOMAIN ClassDef[w.cls].props
    /\ v \in ArgValues(KindsOf(w.cls, name))
    /\ widgets' = [widgets EXCEPT ![slot].dict = (name :> v) @@ w.dict,
                                  ![slot].outs = <<>>]
    /\ UNCHANGED <<fs, program, lastSave, weatherVars, hookVars>>

\* slot.name = v on a Ready widget, for a name that is not in its variable set
SetOther(slot, name, v) ==
    LET w == widgets[slot] IN
    /\ w.status = "Ready"
    /\ name \in program.extras
    /\ name \notin w.variables
    /\ v \in ArgValues(Str)
    /\ widgets' = [widgets EXCEPT ![slot].dict = (name :> v) @@ w.dict,
                                  ![slot].outs = <<>>]
    /\ UNCHANGED <<fs, program, lastSave, weatherVars, hookVars>>

\* del slot.name on a Ready widget, for an attribute of the instance
DelAttr(slot, name) ==
    LET w == widgets[slot] IN
    /\ w.status = "Ready"
    /\ name \in program.dels
    /\ name \in DOMAIN w.dict
    /\ widgets' = [widgets EXCEPT ![slot].dict = [k \in DOMAIN w.dict \ {name} |-> w.dict[k]],
                                  ![slot].outs = <<>>]
    /\ UNCHANGED <<fs, program, lastSave, weatherVars, hookVars>>

\* the file at p is rewritten by something outside the widgets
WriteFile(p) ==
    /\ p \in program.edits
    /\ \E f \in {InitialFiles[p], Rewritten[p]} :
           /\ (IF p \in DOMAIN fs THEN fs[p] # f ELSE TRUE)
           /\ fs' = (p :> f) @@ fs
    /\ UNCHANGED <<program, widgets, lastSave, weatherVars, hookVars>>

\* the file at p is deleted
DeleteFile(p) ==
    /\ p \in program.edits
    /\ p \in DOMAIN fs
    /\ fs' = [q \in DOMAIN fs \ {p} |-> fs[q]]
    /\ UNCHANGED <<program, widgets, lastSave, weatherVars, hookVars>>

Next ==
    \/ \E slot \in program.slots, cid \in program.classes :
         \E args \in [DOMAIN ClassDef[cid].init -> ArgValues(Child)] :
             /\ \A n \in DOMAIN args : args[n] \in ArgValues(ClassDef[cid].init[n])
             /\ Construct(slot, cid, args)
    \/ \E slot \in program.slots : Render(slot)
    \/ \E slot \in program.slots, io \in {"ok", "open failed", "write failed"} :
         Save(slot, io)
    \/ \E slot \in program.slots, name \in UserNames, v \in ArgValues(Child) :
         SetAttr(slot, name, v)
    \/ \E slot \in program.slots, name \in ExtraNames, v \in ArgValues(Str) :
         SetOther(slot, name, v)
    \/ \E slot \in program.slots, name \in UserNames \cup ExtraNames :
         DelAttr(slot, name)
    \/ \E p \in program.edits : WriteFile(p)
    \/ \E p \in program.edits : DeleteFile(p)

Spec == Init /\ [][Next]_vars

\* a program that uses the weather endpoint over some days
WeatherInit ==
    /\ clock \in FirstDay..(FirstDay + DaysPerWeek - 1)
    /\ endpoint = 0
    /\ week = NoWeek
    /\ WidgetsIdle
    /\ HookIdle

WeatherNext ==
    \/ Tick
    \/ NewEndpoint
    \/ CurrentWeek
    \/ NextWeek

WeatherSpec == WeatherInit /\ [][WeatherNext]_vars

\* a program that defines classes and calls them
HookInit == HookIdle /\ WidgetsIdle /\ WeatherIdle

HookNext ==
    \/ \E name \in WidgetClassNames \cup OtherClassNames,
          base \in {"HTMLWidget", "ABC", "object"} \cup WidgetClassNames :
         DefineClass(name, base)
    \/ \E cls \in WidgetClassNames \cup OtherClassNames : Instantiate(cls)

HookSpec == HookInit /\ [][HookNext]_vars

----------------------------------------------------------------------------
(* What the claims speak of *)

Constructed(w) == w.status # "Unconstructed"

\* render() has returned text for the attributes the widget has now
Rendered(w) == w.status = "Ready" /\ w.outs # <<>> /\ LastOut(w).ok

\* the names the template substitutes as {{ v }}
Substituted(w) == {v \in Names : \E i \in 1..Len(w.template_source) :
                                    w.template_source[i] = Ph(v)}

\* the attributes an instance exposes when its own __init__ has returned
ExposedAfterInit(c) ==
    DOMAIN c.init \cup DOMAIN c.body \cup DOMAIN c.props \cup ClassMembers

\* getattr(self, v): a property, else the instance attribute, else the class attribute
GetAttr(w, v) ==
    LET c == ClassDef[w.cls] IN
    IF v \in DOMAIN c.props THEN c.props[v]
    ELSE IF v \in DOMAIN InstanceDict(w) THEN InstanceDict(w)[v]
    ELSE IF v \in DOMAIN c.body THEN c.body[v]
    ELSE Plain(<<"<", "bound method", ">">>)

RECURSIVE CountTag(_, _)
CountTag(nodes, name) ==
    IF nodes = <<>> THEN 0
    ELSE (IF Head(nodes).k = "tag"
          THEN (IF Head(nodes).name = name THEN 1 ELSE 0) + CountTag(Head(nodes).kids, name)
          ELSE 0)
         + CountTag(Tail(nodes), name)

RECURSIVE FirstTag(_, _)
\* the first tag of that name in document order
FirstTag(nodes, name) ==
    LET n == nodes[FirstWith(nodes, name)] IN
    IF n.name = name THEN n ELSE FirstTag(n.kids, name)

RECURSIVE DropKid(_, _, _)
\* the tree without the last (or the first) child of the first tag of that name
DropKid(nodes, name, last) ==
    LET i == FirstWith(nodes, name)
        n == nodes[i] IN
    [nodes EXCEPT ![i] =
        IF n.name = name
        THEN [n EXCEPT !.kids = IF last THEN SubSeq(n.kids, 1, Len(n.kids) - 1)
                                ELSE Tail(n.kids)]
        ELSE [n EXCEPT !.kids = DropKid(n.kids, name, last)]]

RECURSIVE LexemesIn(_, _)
\* the lexemes of the nodes of one kind ("text" or "comment"), at any depth
LexemesIn(nodes, kind) ==
    IF nodes = <<>> THEN {}
    ELSE LET n == Head(nodes) IN
         (IF n.k = kind THEN {n.s[i] : i \in 1..Len(n.s)} ELSE {})
         \cup (IF n.k = "tag" THEN LexemesIn(n.kids, kind) ELSE {})
         \cup LexemesIn(Tail(nodes), kind)

RECURSIVE HasComment(_)
HasComment(nodes) ==
    \E i \in 1..Len(nodes) :
        nodes[i].k = "comment" \/ (nodes[i].k = "tag" /\ HasComment(nodes[i].kids))

HasMarker(s) == Contains(s, CommentOpen) \/ Contains(s, CommentClose)

RECURSIVE RawTextHasMarker(_, _)
\* a string of a style or script element holds a comment marker
RawTextHasMarker(nodes, parent) ==
    \E i \in 1..Len(nodes) :
        \/ nodes[i].k = "text" /\ parent \in CDataTags /\ HasMarker(nodes[i].s)
        \/ nodes[i].k = "tag" /\ RawTextHasMarker(nodes[i].kids, nodes[i].name)

TemplateNodes(w) == w.read[w.template_path].nodes

\* the CSS text the constructor of w's class injects, empty when it injects none
CssText(w) ==
    IF w.cssSeen = "file" /\ GetCssPath(ClassDef[w.cls]) \in DOMAIN w.read
    THEN w.read[GetCssPath(ClassDef[w.cls])].text ELSE <<>>

AngleText    == <<"2", "<", "3", "&", "4", ">", "1">>
AngleEscaped == <<"2", "&", "lt;", "3", "&", "amp;", "4", "&", "gt;", "1">>

----------------------------------------------------------------------------
(* C1 *)

\* the template of w was read and parses
Parsed(w) == w.template_source # <<>> /\ SyntaxErrorAt(w.template_source) = 0

\* C1: when the processed template refers to a name for which the instance exposes
\* no attribute once its own constructor has run, the constructor call fails with
\* the missing-variable error (NotImplementedError) that names the class and such a
\* placeholder, and no widget is returned; and every Ready widget has, when it is
\* validated, an attribute for every name of its variable set.
C1_MissingVariableRejected ==
    \A slot \in Slots :
        LET w == widgets[slot] IN
        (Constructed(w) /\ Parsed(w)) =>
            LET c == ClassDef[w.cls]
                missing == {v \in UndeclaredVariables(w.template_source) :
                               v \notin ExposedAfterInit(c)}
            IN /\ missing # {} =>
                      /\ w.status = "Failed"
                      /\ w.err.kind = "MissingTemplateVariable"
                      /\ w.err.exc = "NotImplementedError"
                      /\ c.name \in w.err.msg
                      /\ \E v \in missing : v \in w.err.msg
               /\ w.status = "Ready" => \A v \in w.variables : HasAttr(c, w.dict, v)

----------------------------------------------------------------------------
(* C2 *)

\* C2: for every widget the constructor accepts, render() puts the current value
\* of the attribute in the place of every validated name, however the attribute is
\* supplied (class body, __init__, property): the output holds that value and no
\* such placeholder renders as nothing.
C2_RenderShowsEveryAttribute ==
    \A slot \in Slots :
        LET w == widgets[slot] IN
        (w.status = "Ready" /\ w.outs # <<>>) =>
            /\ LastOut(w).ok
            /\ \A v \in w.variables \cap Substituted(w) :
                   /\ Show(GetAttr(w, v)) # <<>>
                   /\ Contains(LastOut(w).chars, Show(GetAttr(w, v)))

----------------------------------------------------------------------------
(* C3 *)

\* C3: a class that defines no template_path fails in its constructor call with
\* the configuration error (NotImplementedError) that names the class and
\* 'template_path', before any template or CSS file is opened.
C3_NoTemplatePathFailsFirst ==
    \A slot \in Slots :
        LET w == widgets[slot] IN
        (Constructed(w) /\ ClassDef[w.cls].template_path = None) =>
            /\ w.status = "Failed"
            /\ w.err.kind = "ConfigurationError"
            /\ w.err.exc = "NotImplementedError"
            /\ {ClassDef[w.cls].name, "template_path"} \subseteq w.err.msg
            /\ w.opened = {}
            /\ w.template_source = <<>>

C3_Witness ==
    \E slot \in Slots : widgets[slot].cls = "BadWidget" /\ widgets[slot].status = "Failed"

----------------------------------------------------------------------------
(* C4 *)

\* C4: the configuration, template-not-found, template-syntax and missing-variable
\* errors come from the constructor call, which then returns no usable widget (a
\* template that does not parse never gets Ready, and nothing is rendered from a
\* failed call); and the save() of a Ready widget fails only with an I/O error.
C4_ErrorsOnlyAtConstruction ==
    /\ \A slot \in Slots :
           LET w == widgets[slot] IN
           /\ w.status = "Failed" <=> w.err.kind # ""
           /\ w.status = "Ready" => Parsed(w)
           /\ w.outs # <<>> => w.status = "Ready"
    /\ lastSave.result \in {"", "ok", "open failed", "write failed"}

----------------------------------------------------------------------------
(* C5 *)

\* C5: a Markup value (the render() result of a child, at any depth) held by an
\* attribute is inserted by render() as it is, a plain string with angle brackets is
\* HTML-escaped, and nothing escaped once is escaped again in the output of a
\* parent or grandparent.
C5_CompositionSafety ==
    \A slot \in Slots :
        LET w == widgets[slot] IN
        Rendered(w) =>
            /\ \A v \in (w.variables \cap DOMAIN w.dict) \cap Substituted(w) :
                   LET val == w.dict[v] IN
                   /\ val.safe => Contains(LastOut(w).chars, val.chars)
                   /\ (~val.safe /\ val.chars = AngleText) =>
                          /\ Contains(LastOut(w).chars, AngleEscaped)
                          /\ ~Contains(LastOut(w).chars, AngleText)
            /\ ~Contains(LastOut(w).chars, <<"&", "amp;", "lt;">>)
            /\ ~Contains(LastOut(w).chars, <<"&", "amp;", "gt;">>)
            /\ ~Contains(LastOut(w).chars, <<"&", "amp;", "amp;">>)
            /\ ~Contains(LastOut(w).chars, <<"&", "lt;", "div">>)
            /\ ~Contains(LastOut(w).chars, <<"&", "lt;", "h1">>)

\* a rendered grandparent: a wrapper whose content is the markup of a wrapper whose
\* content is the markup of a heading with an escaped title
C5_Witness ==
    \E slot \in Slots :
        LET w == widgets[slot] IN
        /\ Rendered(w)
        /\ w.cls = "WrapperWidget"
        /\ w.dict["content"].safe
        /\ Count(w.dict["content"].chars, "div") >= 2
        /\ Contains(w.dict["content"].chars, <<"<", "h1", ">">>)
        /\ Contains(w.dict["content"].chars, AngleEscaped)
        /\ Contains(LastOut(w).chars, w.dict["content"].chars)

----------------------------------------------------------------------------
(* C6 *)

\* the template of w as the constructor saw it once the comments were taken out
Stripped(w) == StripComments(TemplateNodes(w))

\* C6: when the configured CSS file is there, the constructor adds exactly one
\* style node holding its text: last in the head when the template has one, else
\* in a new head put first in html, else first in the document; taking that node
\* (or that new head) out again gives back the template.
C6_StylePlacement ==
    \A slot \in Slots :
        LET w == widgets[slot]
            T == Stripped(w)
            S == w.soup
            css == StyleTag(CssText(w))
        IN
        (w.soup # <<>> /\ w.cssSeen = "file") =>
            /\ CountTag(S, "style") = CountTag(T, "style") + 1
            /\ HasTag(T, "head") =>
                   LET kids == FirstTag(S, "head").kids IN
                   /\ kids[Len(kids)] = css
                   /\ DropKid(S, "head", TRUE) = T
            /\ (~HasTag(T, "head") /\ HasTag(T, "html")) =>
                   /\ FirstTag(S, "html").kids[1] = Tag("head", <<css>>)
                   /\ DropKid(S, "html", FALSE) = T
            /\ (~HasTag(T, "head") /\ ~HasTag(T, "html")) =>
                   /\ S[1] = css
                   /\ Tail(S) = T

\* the three cases: a page with a head, a page without one, a fragment
C6_Witness ==
    /\ \E slot \in Slots : widgets[slot].cls = "FullPageWidget" /\ Rendered(widgets[slot])

C6_WitnessNoHead ==
    \E slot \in Slots : widgets[slot].cls = "NoHeadWidget" /\ Rendered(widgets[slot])

C6_WitnessFragment ==
    \E slot \in Slots : widgets[slot].cls = "StyledWidget" /\ Rendered(widgets[slot])

----------------------------------------------------------------------------
(* C7 *)

\* the class names no CSS file, or the constructor call found no regular file there
NoCssFile(w) == w.cssSeen \in {"unset", "absent", "dir"}

\* C7: when css_path is unset or names no existing file, whatever is at that path,
\* the constructor raises nothing on account of the CSS and adds no style node: a
\* call that got as far as the CSS step has the template's own tree, and no error
\* comes from opening the CSS path.
C7_NoCssSilentlySkipped ==
    \A slot \in Slots :
        LET w == widgets[slot]
            c == ClassDef[w.cls] IN
        (Constructed(w) /\ NoCssFile(w)) =>
            /\ w.err.kind # "IOError"
            /\ w.soup = Stripped(w)
            /\ w.opened = {w.template_path}

----------------------------------------------------------------------------
(* C8 *)

\* the names that stand in a placeholder of a comment of these nodes
NamesInComments(nodes) ==
    {VarOf(x) : x \in {y \in LexemesIn(nodes, "comment") : IsPh(y) \/ IsPhAttr(y)}}

\* the names that stand in a placeholder of a string of these nodes
NamesInText(nodes) ==
    {VarOf(x) : x \in {y \in LexemesIn(nodes, "text") : IsPh(y) \/ IsPhAttr(y)}}

\* what is in comments only has no effect on the variable set or on the outcome
CommentsIgnored(w) ==
    /\ w.status = "Ready" =>
           \A v \in NamesInComments(TemplateNodes(w)) :
               v \in w.variables => v \in NamesInText(TemplateNodes(w))
    /\ w.err.kind = "TemplateSyntaxError" =>
           \E x \in LexemesIn(TemplateNodes(w), "text") : IsPhBad(x)
    /\ w.err.kind = "MissingTemplateVariable" =>
           \E v \in NamesInText(TemplateNodes(w)) : v \in w.err.msg

\* C8 as it is stated: whenever the template holds comments, no output of the
\* widget holds "<!--" or "-->", and what stands in comments only adds no variable
\* and fails no constructor call.
C8_NoMarkerInAnyOutput ==
    \A slot \in Slots :
        LET w == widgets[slot] IN
        (w.soup # <<>> /\ HasComment(TemplateNodes(w))) =>
            /\ CommentsIgnored(w)
            /\ Rendered(w) => ~HasMarker(LastOut(w).chars)

\* C8, amended: the comment nodes of the template are taken out before the CSS is
\* injected and before anything is parsed, so no comment of the template is in the
\* processed tree, and what stands in comments only adds no variable and fails no
\* constructor call; the output holds "<!--" or "-->" only where the template's
\* style or script text, the CSS file, or a Markup attribute holds it.
C8_CommentNodesStripped ==
    \A slot \in Slots :
        LET w == widgets[slot] IN
        (w.soup # <<>> /\ HasComment(TemplateNodes(w))) =>
            /\ ~HasComment(w.soup)
            /\ CommentsIgnored(w)
            /\ (/\ Rendered(w)
                /\ ~RawTextHasMarker(TemplateNodes(w), "")
                /\ ~HasMarker(CssText(w))
                /\ \A v \in DOMAIN w.dict : w.dict[v].safe => ~HasMarker(w.dict[v].chars))
               => ~HasMarker(LastOut(w).chars)

\* a rendered widget whose template has a placeholder and an unterminated
\* placeholder in comments only
C8_Witness ==
    \E slot \in Slots :
        LET w == widgets[slot] IN
        /\ Rendered(w)
        /\ "secret" \in NamesInComments(TemplateNodes(w))
        /\ \E x \in LexemesIn(TemplateNodes(w), "comment") : IsPhBad(x)
        /\ "secret" \notin w.variables
        /\ ~HasMarker(LastOut(w).chars)

----------------------------------------------------------------------------
(* C9 *)

\* what of a widget a render() call could change, its last result left out
Kept(w) == [w EXCEPT !.outs = <<>>]

\* C9: a render() call on a Ready widget changes no attribute of the widget, not
\* its template text, not its variable set, and no file; and when the attributes
\* were not changed since the call before, it returns what that call returned.
C9_RenderPure ==
    [][\A slot \in Slots :
           Render(slot) =>
               /\ Kept(widgets'[slot]) = Kept(widgets[slot])
               /\ \A other \in Slots \ {slot} : widgets'[other] = widgets[other]
               /\ fs' = fs
               /\ widgets[slot].outs # <<>> => widgets'[slot].outs = widgets[slot].outs]_vars

\* a widget that was rendered, with output
C9_Witness ==
    \E slot \in Slots :
        /\ Rendered(widgets[slot])
        /\ widgets[slot].cls = "PageHeadingWidget"
        /\ Contains(LastOut(widgets[slot]).chars, AngleEscaped)

----------------------------------------------------------------------------
(* C10 *)

\* ./<ClassName>_output.html for the class of the last save() call
SavedPath == Abs(Cwd, lastSave.name \o "_output.html")

\* a step of the widgets (not one in which something else rewrites or deletes a
\* file) leaves every file alone but the output file of the save() it made
OnlyOutputFileWritten ==
    ~(\E p \in program.edits : WriteFile(p) \/ DeleteFile(p)) =>
        /\ \A p \in DOMAIN fs :
               p # Abs(Cwd, lastSave'.name \o "_output.html") =>
                   p \in DOMAIN fs' /\ fs'[p] = fs[p]
        /\ DOMAIN fs' \subseteq DOMAIN fs \cup {Abs(Cwd, lastSave'.name \o "_output.html")}
        /\ lastSave' = lastSave => fs' = fs

----------------------------------------------------------------------------
(* C11 *)

\* a constructor call of some class of the program fills the slot in this step
ConstructorCall(slot) ==
    \E cid \in program.classes :
        \E args \in [DOMAIN ClassDef[cid].init -> ArgValues(Child)] :
            Construct(slot, cid, args)

\* the template text the files hold now give a widget of class c
ProcessedNow(c) ==
    LET tp == Resolve(c.module, c.template_path)
        cp == GetCssPath(c)
        t  == StripComments(fs[tp].nodes)
    IN Prettify(IF CssSeen(c, fs) = "file" THEN InjectCSS(t, fs[cp].text) ELSE t, 0, "")

\* C11: every constructor call reads the template file and the CSS file as they
\* are at that moment, whatever an earlier instance of the class read; and once a
\* widget is Ready, rewriting or deleting these files changes nothing in it: a
\* later render() or save() with the same attributes gives the same output.
C11_FilesReadAtConstructionOnly ==
    [][\A slot \in Slots :
           LET w == widgets[slot]
               n == widgets'[slot] IN
           /\ (ConstructorCall(slot) /\ n.template_source # <<>>) =>
                  /\ n.template_source = ProcessedNow(ClassDef[n.cls])
                  /\ \A q \in n.opened : n.read[q] = fs[q]
           /\ (fs' # fs /\ lastSave' = lastSave) => n = w
           /\ (w.status = "Ready" /\ w.outs # <<>> /\ n.outs # <<>>
                                  /\ Kept(n) = Kept(w)) => n.outs = w.outs
           /\ (w.outs # <<>> /\ \E io \in {"ok", "write failed"} : Save(slot, io))
                  => lastSave'.out = LastOut(w).chars]_vars

\* two Ready instances of one class with the same attributes, built before and
\* after the template file was rewritten: they hold different template text and
\* have rendered different output, and the file is gone by now
C11_Witness ==
    /\ widgets["a"].cls = "PageHeadingWidget"
    /\ widgets["b"].cls = "PageHeadingWidget"
    /\ Rendered(widgets["a"]) /\ Rendered(widgets["b"])
    /\ widgets["a"].dict = widgets["b"].dict
    /\ widgets["a"].template_source # widgets["b"].template_source
    /\ LastOut(widgets["a"]) # LastOut(widgets["b"])
    /\ widgets["a"].template_path = widgets["b"].template_path
    /\ widgets["a"].template_path \notin DOMAIN fs

----------------------------------------------------------------------------
(* C12 *)

\* the template text of w had no CSS been injected
SourceWithoutCss(w) == Prettify(Stripped(w), 0, "")

\* C12: whatever the CSS file holds, placeholder-like text included, it is put in
\* the style node as it is and is in every render() output as it is, it adds no
\* name to the variable set, and no constructor call fails on its account.
C12_CssOpaque ==
    \A slot \in Slots :
        LET w == widgets[slot]
            c == ClassDef[w.cls] IN
        (w.soup # <<>> /\ w.cssSeen = "file") =>
            /\ CountTag(w.soup, "style") = CountTag(Stripped(w), "style") + 1
            /\ Contains(w.template_source, CssText(w))
            /\ w.status = "Ready" =>
                   w.variables = UndeclaredVariables(SourceWithoutCss(w))
            /\ w.status = "Failed" =>
                   \/ SyntaxErrorAt(SourceWithoutCss(w)) # 0
                   \/ \E v \in UndeclaredVariables(SourceWithoutCss(w)) :
                          ~HasAttr(c, w.dict, v)
            /\ Rendered(w) => Contains(LastOut(w).chars, CssText(w))

----------------------------------------------------------------------------
(* C13 *)

\* the Monday of the week day d is in
MondayOf(d) == d - (IsoWeekday(d) - 1)

Consecutive(days) == \A i \in 1..(Len(days) - 1) : days[i + 1] = days[i] + 1

\* C13: on whatever weekday it is called, current_week() returns seven consecutive
\* dates that begin with the Monday of the current week, and next_week() seven
\* consecutive dates that begin with the Monday of the week after.
C13_WeeksStartOnMonday ==
    /\ week.op # "" => Len(week.days) = DaysPerWeek /\ Consecutive(week.days)
    /\ week.op = "current_week" => week.days[1] = MondayOf(week.at)
    /\ week.op = "next_week" => week.days[1] = MondayOf(week.at) + DaysPerWeek

----------------------------------------------------------------------------
(* C14 *)

\* C14: in every constructor call of a widget class _post_init runs exactly once,
\* after __init__; in a call of a class that is no widget it does not run; and
\* however many widget classes are defined, subclasses of subclasses included,
\* __call__ is wrapped once.
C14_HookOncePerCall ==
    /\ call.cls # "" =>
           call.ran = IF IsWidgetClass(call.cls, defined)
                      THEN <<"__new__", "__init__", "_post_init">>
                      ELSE <<"__new__", "__init__">>
    /\ meta.wrappers <= 1
    /\ meta.patched <=> meta.wrappers = 1
    /\ (\E c \in DOMAIN defined : IsWidgetClass(c, defined)) => meta.patched

\* a call of a subclass of a subclass of a subclass, with every class defined
C14_Witness ==
    /\ DOMAIN defined = WidgetClassNames \cup OtherClassNames
    /\ call.cls = "FrontPageWidget"
    /\ defined["FrontPageWidget"] = "HomePageWidget"
    /\ defined["HomePageWidget"] = "PageHeadingWidget"
    /\ Count(call.ran, "_post_init") = 1

----------------------------------------------------------------------------
(* C15 *)

\* the instance attribute of that name, if there is one
Assigned(w, v) == IF v \in DOMAIN w.dict THEN <<w.dict[v]>> ELSE <<>>

----------------------------------------------------------------------------
(* C16 *)

\* C16: no step on one instance (a constructor call that returns or fails, an
\* assignment, a deletion, a render(), a save()) changes anything of another
\* instance: its template text, its variable set, its attributes, what its
\* render() returns.
C16_InstancesIndependent ==
    [][\A a \in Slots : \A b \in Slots \ {a} :
           widgets'[a] # widgets[a] =>
               /\ widgets'[b] = widgets[b]
               /\ RenderResult(widgets'[b]) = RenderResult(widgets[b])]_vars

\* two rendered instances of one class with the same template text, different
\* attributes and different output
C16_Witness ==
    /\ widgets["a"].cls = widgets["b"].cls
    /\ Rendered(widgets["a"]) /\ Rendered(widgets["b"])
    /\ widgets["a"].template_source = widgets["b"].template_source
    /\ widgets["a"].dict["title"].chars = <<"Hi">>
    /\ widgets["b"].dict["title"].chars = AngleText
    /\ LastOut(widgets["a"]) # LastOut(widgets["b"])

----------------------------------------------------------------------------
(* C17 *)

\* the first of the four stages that fails for a constructor call of class c
\* whose __init__ left dict, with the files as they are now; "" when none fails
EarliestFailure(c, dict) ==
    IF c.template_path = None THEN "ConfigurationError"
    ELSE IF OpenError(fs, Resolve(c.module, c.template_path)) # "" THEN "TemplateNotFound"
    ELSE IF SyntaxErrorAt(ProcessedNow(c)) # 0 THEN "TemplateSyntaxError"
    ELSE IF \E v \in UndeclaredVariables(ProcessedNow(c)) : ~HasAttr(c, dict, v)
         THEN "MissingTemplateVariable"
    ELSE ""

\* C17: a constructor call reports the error of the earliest failing stage, in
\* the order template path unset, template file unreadable, syntax of the
\* processed template invalid, placeholder without attribute; and it reports
\* no error when none of the four fails.
C17_EarliestStageReported ==
    [][\A slot \in Slots :
           ConstructorCall(slot) =>
               LET n == widgets'[slot] IN
               /\ n.err.kind = EarliestFailure(ClassDef[n.cls], n.dict)
               /\ n.status = (IF n.err.kind = "" THEN "Ready" ELSE "Failed")]_vars

----------------------------------------------------------------------------
(* C18 *)

\* what is at path p: the entry, or <<>> when nothing is there
FileAt(files, p) == IF p \in DOMAIN files THEN <<files[p]>> ELSE <<>>

\* C18: a save() call during which the operating system fails at nothing leaves
\* the file <ClassName>_output.html as it was before the call or holding the
\* complete output of render(); when render() raises in it, the file is as it
\* was before the call.
C18_SaveAllOrNothing ==
    [][\A slot \in Slots :
           Save(slot, "ok") =>
               LET w == widgets[slot]
                   p == OutputPath(w)
                   r == RenderResult(w) IN
               /\ \/ FileAt(fs', p) = FileAt(fs, p)
                  \/ r.ok /\ FileAt(fs', p) = <<TextFile(r.chars)>>
               /\ ~r.ok => FileAt(fs', p) = FileAt(fs, p)]_vars

----------------------------------------------------------------------------
(* C19 *)

\* the data attributes the concrete class of w declares: in its body, as
\* properties, or assigned by its __init__
DeclaredByWidget(w) ==
    LET c == ClassDef[w.cls] IN DOMAIN c.init \cup DOMAIN c.body \cup DOMAIN c.props

\* C19: a constructor call whose processed template refers to the name of a
\* member of the base class that the concrete class does not declare as data
\* fails; and the output of render() never holds, in the place of a placeholder,
\* the value of a field _post_init assigned.
C19_OnlyWidgetDataInOutput ==
    \A slot \in Slots :
        LET w == widgets[slot] IN
        /\ (Constructed(w) /\ Parsed(w)) =>
               \A v \in (BaseNames \cap UndeclaredVariables(w.template_source))
                            \ DeclaredByWidget(w) :
                   /\ w.status = "Failed"
                   /\ w.err.kind = "MissingTemplateVariable"
        /\ Rendered(w) =>
               \A v \in (DOMAIN BaseDict(w) \cap Substituted(w)) \ DeclaredByWidget(w) :
                   ~Contains(LastOut(w).chars, Show(BaseDict(w)[v]))

====
